---- MODULE Spec2Model ----
(***************************************************************************)
(* Model of package inflight (src/inflight.go): duplicate function call    *)
(* suppression.  A Group maps keys to in-flight calls; Group.Do registers  *)
(* or joins a call and runs call.do on it; Group.Forget unregisters a key. *)
(*                                                                         *)
(* Every Do invocation is a goroutine identified by a number of Ids, given *)
(* out in the order in which the invocations reach LoadOrStore.  The call  *)
(* allocated by newCall inside invocation i is identified by i as well, so *)
(* "execution e" is the call created by invocation e.  An invocation steps *)
(* through the shared-memory operations of Do and call.do one at a time:   *)
(*   idle -> add -> once -> (run ->) load -> dec -> (cad ->) done          *)
(***************************************************************************)
EXTENDS Integers, FiniteSets, Sequences, TLC

MaxDo == 3        \* Do invocations in a run
NumKeys == 2      \* distinct keys
NumOps == 2       \* distinct functions a caller may pass to Do
MaxForget == 1    \* Forget invocations in a run

Ids == 1..MaxDo
Keys == 1..NumKeys
Ops == 1..NumOps
NoCall == 0       \* no *call stored under a key / nil error / zero value

VARIABLES
    m,          \* Group.m: key -> stored call (NoCall when the key is absent)
    callers,    \* call.callers of every call
    once,       \* sync.OnceValues state of call.onceFunc: new, running, done
    onceFunc,   \* the fn wrapped by call.onceFunc
    result,     \* the (value, err) pair cached by sync.OnceValues
    pc,         \* position of every Do invocation
    key,        \* Do's key argument
    fn,         \* Do's fn argument
    call,       \* Do's local "call": the call LoadOrStore returned
    loaded,     \* Do's local "loaded"
    got,        \* call.do's (value, err) from c.onceFunc()
    seen,       \* call.do's c.callers.Load()
    ret,        \* what Do returned: <<value, shared, err>>
    nextId,     \* next invocation to start
    nForget,    \* Forget invocations so far
    runs,       \* history: how many times each call's fn was started
    runner,     \* history: the invocation inside which each call's fn ran
    forgotten,  \* history: calls a Forget removed from the registry
    preForget,  \* history: calls stored under k before some Forget(k)
    fresh,      \* history: key -> last registry write on it was a Forget
    before,     \* history: the invocations that had returned when i began
    barred,     \* history: preForget when i began
    postForget, \* history: fresh[key] when i began
    removedBy,  \* history: call -> the invocations whose CompareAndDelete removed it
    early       \* history: invocations whose callers.Add(1) preceded the end of fn

vars == <<m, callers, once, onceFunc, result, pc, key, fn, call, loaded, got,
          seen, ret, nextId, nForget, runs, runner, forgotten, preForget,
          fresh, before, barred, postForget, removedBy, early>>

histVars == <<runs, runner, forgotten, preForget, fresh, before, barred,
              postForget, removedBy, early>>

(***************************************************************************)
(* The caller-supplied functions.  Function f returns the pair             *)
(* <<value, err>>: an even f fails with error f and the zero value, an odd *)
(* f succeeds with value f, so that the outcome names the function.        *)
(***************************************************************************)
FnReturn(f) == IF f % 2 = 0 THEN <<NoCall, f>> ELSE <<f, NoCall>>

(***************************************************************************)
(* hashtriemap.HashTrieMap operations used by Group, each atomic.          *)
(***************************************************************************)
\* LoadOrStore that reports loaded even when it stored the value
LoadOrStore_AlwaysLoaded(mp, k, c) ==
    IF mp[k] = NoCall
    THEN <<[mp EXCEPT ![k] = c], c, TRUE>>
    ELSE <<mp, mp[k], TRUE>>

\* a plain Store(key, value): the new call replaces the stored one
LoadOrStore_Overwrite(mp, k, c) == <<[mp EXCEPT ![k] = c], c, FALSE>>

\* LoadOrStore(key, value): <<new map, actual, loaded>>
LoadOrStore(mp, k, c) ==
    IF mp[k] = NoCall
    THEN <<[mp EXCEPT ![k] = c], c, FALSE>>
    ELSE <<mp, mp[k], TRUE>>

\* a plain Delete(key) in place of CompareAndDelete
CompareAndDelete_ByKey(mp, k, c) == [mp EXCEPT ![k] = NoCall]

\* an owner that never removes its call
CompareAndDelete_Skip(mp, k, c) == mp

\* CompareAndDelete(key, old): deletes only when the stored call is old
CompareAndDelete(mp, k, c) ==
    IF mp[k] = c THEN [mp EXCEPT ![k] = NoCall] ELSE mp

\* a Forget that only loads
LoadAndDelete_Keep(mp, k) == mp

\* a Forget that clears the whole map
LoadAndDelete_Clear(mp, k) == [x \in Keys |-> NoCall]

\* LoadAndDelete(key)
LoadAndDelete(mp, k) == [mp EXCEPT ![k] = NoCall]

\* callers.Store(delta) in place of callers.Add(delta)
AtomicAdd_Store(n, delta) == delta

\* atomic.Int32.Add(delta): the counter stays far below 2^31 here
AtomicAdd(n, delta) == n + delta

\* shared := loaded || callers >= 1
Shared_OffByOne(ld, n) == ld \/ n >= 1

\* shared := callers > 1
Shared_CountOnly(ld, n) == n > 1

\* shared := loaded || callers > 1
Shared(ld, n) == ld \/ n > 1

Init ==
    /\ m = [k \in Keys |-> NoCall]
    /\ callers = [e \in Ids |-> 0]
    /\ once = [e \in Ids |-> "new"]
    /\ onceFunc = [e \in Ids |-> NoCall]
    /\ result = [e \in Ids |-> <<NoCall, NoCall>>]
    /\ pc = [i \in Ids |-> "idle"]
    /\ key = [i \in Ids |-> NoCall]
    /\ fn = [i \in Ids |-> NoCall]
    /\ call = [i \in Ids |-> NoCall]
    /\ loaded = [i \in Ids |-> FALSE]
    /\ got = [i \in Ids |-> <<NoCall, NoCall>>]
    /\ seen = [i \in Ids |-> 0]
    /\ ret = [i \in Ids |-> <<NoCall, FALSE, NoCall>>]
    /\ nextId = 1
    /\ nForget = 0
    /\ runs = [e \in Ids |-> 0]
    /\ runner = [e \in Ids |-> NoCall]
    /\ forgotten = {}
    /\ preForget = {}
    /\ fresh = [k \in Keys |-> FALSE]
    /\ before = [i \in Ids |-> {}]
    /\ barred = [i \in Ids |-> {}]
    /\ postForget = [i \in Ids |-> FALSE]
    /\ removedBy = [e \in Ids |-> {}]
    /\ early = {}

\* Do invocations that have obtained a call
Started(i) == pc[i] # "idle"
\* the calls that were stored in the registry (created by an owner)
Registered(e) == Started(e) /\ ~loaded[e]

(***************************************************************************)
(* Group.Do, line 63: newCall(fn) and m.LoadOrStore(key, call).            *)
(***************************************************************************)
DoLoadOrStore(i, k, f) ==
    /\ pc[i] = "idle"
    /\ i = nextId
    /\ LET r == LoadOrStore(m, k, i) IN
        /\ m' = r[1]
        /\ call' = [call EXCEPT ![i] = r[2]]
        /\ loaded' = [loaded EXCEPT ![i] = r[3]]
        /\ fresh' = IF r[3] THEN fresh ELSE [fresh EXCEPT ![k] = FALSE]
    /\ onceFunc' = [onceFunc EXCEPT ![i] = f]
    /\ key' = [key EXCEPT ![i] = k]
    /\ fn' = [fn EXCEPT ![i] = f]
    /\ pc' = [pc EXCEPT ![i] = "add"]
    /\ nextId' = nextId + 1
    /\ before' = [before EXCEPT ![i] = {j \in Ids : pc[j] = "done"}]
    /\ barred' = [barred EXCEPT ![i] = preForget]
    /\ postForget' = [postForget EXCEPT ![i] = fresh[k]]
    /\ UNCHANGED <<callers, once, result, got, seen, ret, nForget, runs,
                   runner, forgotten, preForget, removedBy, early>>

(***************************************************************************)
(* call.do, line 34: c.callers.Add(1).                                     *)
(***************************************************************************)
CallersAdd(i) ==
    /\ pc[i] = "add"
    /\ callers' = [callers EXCEPT ![call[i]] = AtomicAdd(@, 1)]
    /\ pc' = [pc EXCEPT ![i] = "once"]
    /\ early' = IF once[call[i]] # "done" THEN early \cup {i} ELSE early
    /\ UNCHANGED <<m, once, onceFunc, result, key, fn, call, loaded, got,
                   seen, ret, nextId, nForget, runs, runner, forgotten,
                   preForget, fresh, before, barred, postForget, removedBy>>

(***************************************************************************)
(* call.do, line 36: c.onceFunc().  The first invocation to enter starts   *)
(* fn; one that enters while fn runs blocks until it is done; one that     *)
(* enters afterwards gets the cached pair.                                 *)
(***************************************************************************)
\* fn called without the once guard: it starts again until a run has ended
OnceMayRun_Unguarded(e) == once[e] # "done"

\* one once guard shared by all calls: a fn starts only while no fn runs
OnceMayRun_OneAtATime(e) ==
    once[e] = "new" /\ \A x \in Ids : once[x] # "running"

\* sync.OnceValues lets fn start only while it has never been started
OnceMayRun(e) == once[e] = "new"

OnceStart(i) ==
    /\ pc[i] = "once"
    /\ OnceMayRun(call[i])
    /\ once' = [once EXCEPT ![call[i]] = "running"]
    /\ runs' = [runs EXCEPT ![call[i]] = @ + 1]
    /\ runner' = [runner EXCEPT ![call[i]] = i]
    /\ pc' = [pc EXCEPT ![i] = "run"]
    /\ UNCHANGED <<m, callers, onceFunc, result, key, fn, call, loaded, got,
                   seen, ret, nextId, nForget, forgotten, preForget, fresh,
                   before, barred, postForget, removedBy, early>>

\* a do that runs the fn of the invocation it is called from
RunFn_Own(i) == fn[i]

\* the function c.onceFunc() runs: the one newCall wrapped in the call
RunFn(i) == onceFunc[call[i]]

\* fn returns inside the invocation that started it
FnDone(i) ==
    /\ pc[i] = "run"
    /\ LET r == FnReturn(RunFn(i)) IN
        /\ result' = [result EXCEPT ![call[i]] = r]
        /\ got' = [got EXCEPT ![i] = r]
    /\ once' = [once EXCEPT ![call[i]] = "done"]
    /\ pc' = [pc EXCEPT ![i] = "load"]
    /\ UNCHANGED <<m, callers, onceFunc, key, fn, call, loaded, seen, ret,
                   nextId, nForget>>
    /\ UNCHANGED histVars

\* waiters that get the value without the error
OnceValue_DropErr(e) == <<result[e][1], NoCall>>

\* waiters that read the call currently stored under the key
OnceValue_FromRegistry(e) ==
    IF m[key[e]] # NoCall THEN result[m[key[e]]] ELSE result[e]

\* the value every other invocation of c.onceFunc() gets
OnceValue(e) == result[e]

\* waiters released only while the call is still stored under its key
OnceReady_WhileStored(e) == once[e] = "done" /\ m[key[e]] = e

\* c.onceFunc() returns to a waiter as soon as the one run of fn has ended
OnceReady(e) == once[e] = "done"

OnceWait(i) ==
    /\ pc[i] = "once"
    /\ OnceReady(call[i])
    /\ got' = [got EXCEPT ![i] = OnceValue(call[i])]
    /\ pc' = [pc EXCEPT ![i] = "load"]
    /\ UNCHANGED <<m, callers, once, onceFunc, result, key, fn, call, loaded,
                   seen, ret, nextId, nForget>>
    /\ UNCHANGED histVars

(***************************************************************************)
(* call.do, line 37: the return statement reads c.callers.Load().          *)
(***************************************************************************)
CallersLoad(i) ==
    /\ pc[i] = "load"
    /\ seen' = [seen EXCEPT ![i] = callers[call[i]]]
    /\ pc' = [pc EXCEPT ![i] = "dec"]
    /\ UNCHANGED <<m, callers, once, onceFunc, result, key, fn, call, loaded,
                   got, ret, nextId, nForget>>
    /\ UNCHANGED histVars

(***************************************************************************)
(* call.do, line 35: the deferred c.callers.Add(-1); then Do, lines 68-69, *)
(* computes shared and its results.  A joiner has nothing deferred and     *)
(* returns; the owner still has its deferred CompareAndDelete to run.      *)
(***************************************************************************)
CallersDec(i) ==
    /\ pc[i] = "dec"
    /\ callers' = [callers EXCEPT ![call[i]] = AtomicAdd(@, -1)]
    /\ ret' = [ret EXCEPT ![i] = <<got[i][1], Shared(loaded[i], seen[i]), got[i][2]>>]
    /\ pc' = [pc EXCEPT ![i] = IF loaded[i] THEN "done" ELSE "cad"]
    /\ UNCHANGED <<m, once, onceFunc, result, key, fn, call, loaded, got,
                   seen, nextId, nForget>>
    /\ UNCHANGED histVars

(***************************************************************************)
(* Group.Do, line 65: the owner's deferred m.CompareAndDelete(key, call).  *)
(***************************************************************************)
DoCompareAndDelete(i) ==
    /\ pc[i] = "cad"
    /\ m' = CompareAndDelete(m, key[i], call[i])
    /\ removedBy' = IF m[key[i]] # NoCall /\ m'[key[i]] = NoCall
                    THEN [removedBy EXCEPT ![m[key[i]]] = @ \cup {i}]
                    ELSE removedBy
    /\ pc' = [pc EXCEPT ![i] = "done"]
    /\ UNCHANGED <<callers, once, onceFunc, result, key, fn, call, loaded,
                   got, seen, ret, nextId, nForget, runs, runner, forgotten,
                   preForget, fresh, before, barred, postForget, early>>

(***************************************************************************)
(* Group.Forget, line 81: m.LoadAndDelete(key).                            *)
(***************************************************************************)
Forget(k) ==
    /\ nForget < MaxForget
    /\ nForget' = nForget + 1
    /\ m' = LoadAndDelete(m, k)
    /\ forgotten' = IF m[k] # NoCall /\ m'[k] = NoCall
                    THEN forgotten \cup {m[k]} ELSE forgotten
    /\ preForget' = preForget \cup {e \in Ids : Registered(e) /\ key[e] = k}
    /\ fresh' = [fresh EXCEPT ![k] = TRUE]
    /\ UNCHANGED <<callers, once, onceFunc, result, pc, key, fn, call, loaded,
                   got, seen, ret, nextId, runs, runner, before, barred,
                   postForget, removedBy, early>>

Next ==
    \/ \E i \in Ids, k \in Keys, f \in Ops : DoLoadOrStore(i, k, f)
    \/ \E i \in Ids : CallersAdd(i)
    \/ \E i \in Ids : OnceStart(i)
    \/ \E i \in Ids : FnDone(i)
    \/ \E i \in Ids : OnceWait(i)
    \/ \E i \in Ids : CallersLoad(i)
    \/ \E i \in Ids : CallersDec(i)
    \/ \E i \in Ids : DoCompareAndDelete(i)
    \/ \E k \in Keys : Forget(k)

Spec == Init /\ [][Next]_vars

\* the steps of invocation i after its LoadOrStore
DoStep(i) ==
    \/ CallersAdd(i)
    \/ OnceStart(i)
    \/ FnDone(i)
    \/ OnceWait(i)
    \/ CallersLoad(i)
    \/ CallersDec(i)
    \/ DoCompareAndDelete(i)

(***************************************************************************)
(* Scheduling.  The values the functions return play no part in who waits  *)
(* for whom, so the runs checked for progress let invocation i pass the    *)
(* one function FnOf(i).                                                   *)
(***************************************************************************)
FnOf(i) == 1 + (i % NumOps)

SchedNext ==
    \/ \E i \in Ids, k \in Keys : DoLoadOrStore(i, k, FnOf(i))
    \/ \E i \in Ids : DoStep(i)
    \/ \E k \in Keys : Forget(k)

\* every goroutine inside Do keeps being scheduled and every fn returns
FairSpec == Init /\ [][SchedNext]_vars /\ \A i \in Ids : WF_vars(DoStep(i))

\* invocation i is inside a fn passed for key 1
InFnOfKey1(i) == pc[i] = "run" /\ key[i] = 1

\* as FairSpec, but a fn passed for key 1 need never return
StuckSpec ==
    Init /\ [][SchedNext]_vars
         /\ \A i \in Ids : WF_vars(~InFnOfKey1(i) /\ DoStep(i))

TypeOK ==
    /\ m \in [Keys -> Ids \cup {NoCall}]
    /\ callers \in [Ids -> Int]
    /\ once \in [Ids -> {"new", "running", "done"}]
    /\ pc \in [Ids -> {"idle", "add", "once", "run", "load", "dec", "cad", "done"}]
    /\ call \in [Ids -> Ids \cup {NoCall}]
    /\ nextId \in 1..(MaxDo + 1)
    /\ nForget \in 0..MaxForget
(***************************************************************************)
(* Vocabulary of the properties.                                           *)
(***************************************************************************)
Done(i) == pc[i] = "done"
\* the (value, err) pair a returned Do invocation handed to its caller
Pair(i) == <<ret[i][1], ret[i][3]>>
SharedFlag(i) == ret[i][2]
\* invocation i has come out of c.onceFunc() or is the one running fn
PastOnce(i) == pc[i] \in {"run", "load", "dec", "cad", "done"}
\* the other invocations that obtained the call i obtained
Others(i) == {j \in Ids \ {i} : Started(j) /\ call[j] = call[i]}
\* fn of execution e is in progress
Running(e) == once[e] = "running"
\* no other Do on i's key overlapped i so far
Alone(i) ==
    \A j \in Ids \ {i} :
        (Started(j) /\ key[j] = key[i]) =>
            \/ j < i /\ j \in before[i]
            \/ j > i /\ i \in before[j]
\* every earlier Do on i's key had returned when i began
AloneAtBegin(i) ==
    \A j \in Ids : (j < i /\ key[j] = key[i]) => j \in before[i]

(***************************************************************************)
(* C1: the fn of every call is started at most once, and it has been       *)
(* started exactly once as soon as any invocation attached to the call is  *)
(* inside or past c.onceFunc(), whatever the number and order of the       *)
(* invocations that obtained the call.                                     *)
(***************************************************************************)
C1_ExecutedOnce ==
    \A e \in Ids :
        /\ runs[e] <= 1
        /\ (\E i \in Ids : Started(i) /\ call[i] = e /\ PastOnce(i)) => runs[e] = 1
        /\ (once[e] # "new") => runs[e] = 1

C1_Witness ==
    \E e \in Ids :
        /\ Cardinality({i \in Ids : Done(i) /\ call[i] = e}) >= 3
        /\ runs[e] = 1
        /\ runner[e] # e

(***************************************************************************)
(* C2: every Do invocation that returns hands back the pair the one run of *)
(* its call's fn returned, error included, so all invocations attached to  *)
(* one call return the same pair.                                          *)
(***************************************************************************)
C2_SameOutcome ==
    \A i \in Ids :
        Done(i) =>
            /\ Pair(i) = FnReturn(onceFunc[call[i]])
            /\ Pair(i) = result[call[i]]
            /\ runs[call[i]] = 1
            /\ \A j \in Others(i) : Done(j) => Pair(j) = Pair(i)

C2_Witness ==
    \E i, j \in Ids :
        /\ i # j /\ Done(i) /\ Done(j)
        /\ call[i] = call[j] /\ call[i] = i
        /\ runner[i] = i
        /\ Pair(j)[2] # NoCall
        /\ fn[j] # fn[i]

(***************************************************************************)
(* C3 as stated: for every key at most one fn supplied for that key is in  *)
(* progress at any instant, Forget calls included.                         *)
(***************************************************************************)
C3_AtMostOneRunningPerKey ==
    \A e1, e2 \in Ids :
        (Running(e1) /\ Running(e2) /\ key[e1] = key[e2]) => e1 = e2

(***************************************************************************)
(* C3 amended: an execution in progress that no Forget removed is the one  *)
(* registered under its key, so for every key at most one of the           *)
(* executions in progress has not been removed by Forget.                  *)
(***************************************************************************)
C3_AtMostOneRunningUnlessForgotten ==
    /\ \A e \in Ids : (Running(e) /\ e \notin forgotten) => m[key[e]] = e
    /\ \A e1, e2 \in Ids :
        (Running(e1) /\ Running(e2) /\ key[e1] = key[e2] /\ e1 # e2)
            => (e1 \in forgotten \/ e2 \in forgotten)

C3_Witness ==
    \E e1, e2 \in Ids :
        /\ e1 # e2 /\ key[e1] = key[e2]
        /\ Running(e1) /\ Running(e2)
        /\ e1 \in forgotten /\ m[key[e2]] = e2

(***************************************************************************)
(* C4: a Do invocation returns shared = TRUE when it joined a registered   *)
(* call, and when it and another invocation had both attached to the same  *)
(* call (callers.Add(1)) before the call's fn completed.                   *)
(***************************************************************************)
C4_SharedWhenConcurrent ==
    \A i \in Ids :
        Done(i) =>
            /\ loaded[i] => SharedFlag(i)
            /\ (i \in early /\ \E j \in Others(i) : j \in early) => SharedFlag(i)

(***************************************************************************)
(* C5: a Do invocation on key k that no other Do invocation on k overlaps  *)
(* returns shared = FALSE, whatever its fn returns and whether or not      *)
(* Forget(k) ran meanwhile.                                                *)
(***************************************************************************)
C5_IsolatedNotShared ==
    \A i \in Ids : (Done(i) /\ Alone(i)) => ~SharedFlag(i)

C5_Witness ==
    \E i, j \in Ids :
        /\ j < i /\ key[j] = key[i]
        /\ Done(i) /\ Done(j) /\ Alone(i)
        /\ Pair(i)[2] # NoCall
        /\ nForget > 0 /\ call[i] \in forgotten

(***************************************************************************)
(* C6: among the invocations attached to one call at most one returns      *)
(* shared = FALSE, and only the one that created the call can: every       *)
(* joiner returns shared = TRUE.                                           *)
(***************************************************************************)
C6_JoinersShared ==
    \A e \in Ids :
        LET unshared == {i \in Ids : Done(i) /\ call[i] = e /\ ~SharedFlag(i)} IN
            /\ unshared \subseteq {e}
            /\ Cardinality(unshared) <= 1
            /\ \A i \in Ids : (Done(i) /\ call[i] = e /\ i # e) => SharedFlag(i)

C6_Witness ==
    \E e \in Ids :
        /\ Done(e) /\ call[e] = e /\ ~SharedFlag(e)
        /\ \E j \in Others(e) : Done(j) /\ seen[j] = 1
        /\ Cardinality({j \in Others(e) : Done(j) /\ SharedFlag(j)}) = 2

(***************************************************************************)
(* C7: a Do invocation that returns shared = TRUE was not the only one on  *)
(* its call: another invocation obtained the same call.                    *)
(***************************************************************************)
C7_SharedHasOther ==
    \A i \in Ids : (Done(i) /\ SharedFlag(i)) => Others(i) # {}

C7_Witness ==
    \E i \in Ids :
        /\ Done(i) /\ ~loaded[i] /\ SharedFlag(i)
        /\ \E j \in Others(i) : ~Done(j)

(***************************************************************************)
(* C8: a Do(k, op2) that begins after Forget(k) returned never obtains a   *)
(* call registered under k before that Forget, even one still running;     *)
(* when no Do registered under k since the Forget it registers its own     *)
(* call and op2 itself is what runs and what it returns.                   *)
(***************************************************************************)
C8_ForgetIsolatesLaterDo ==
    \A i \in Ids :
        Started(i) =>
            /\ call[i] \notin barred[i]
            /\ postForget[i] =>
                /\ ~loaded[i] /\ call[i] = i
                /\ onceFunc[i] = fn[i]
                /\ PastOnce(i) => runs[i] = 1
                /\ Done(i) => Pair(i) = FnReturn(fn[i])

C8_Witness ==
    \E i, e \in Ids :
        /\ e # i /\ key[e] = key[i]
        /\ e \in barred[i] /\ Running(e)
        /\ postForget[i] /\ Done(i)
        /\ fn[i] # fn[e]

(***************************************************************************)
(* C9: the invocations attached to a call that Forget removed still return *)
(* the outcome of that call's own fn, not that of a newer call stored      *)
(* under the key, and the removed call's fn runs once, to completion.      *)
(***************************************************************************)
C9_ForgetKeepsAttached ==
    \A i \in Ids :
        (Started(i) /\ call[i] \in forgotten) =>
            /\ runs[call[i]] <= 1
            /\ Done(i) =>
                /\ once[call[i]] = "done"
                /\ runs[call[i]] = 1
                /\ Pair(i) = FnReturn(fn[call[i]])

C9_Witness ==
    \E i, e2 \in Ids :
        /\ Done(i) /\ loaded[i] /\ call[i] \in forgotten
        /\ e2 # call[i] /\ key[e2] = key[i] /\ m[key[i]] = e2
        /\ once[e2] = "done" /\ fn[e2] # fn[call[i]]

(***************************************************************************)
(* C10 as stated: a Do(k, op2) that begins after some Do(k, op), owner or  *)
(* joiner, has returned never obtains the call that earlier invocation was *)
(* attached to, and runs op2 when no other Do on k is in progress.         *)
(***************************************************************************)
C10_NoReuseAfterAnyReturn ==
    \A i \in Ids :
        Started(i) =>
            /\ \A j \in before[i] : key[j] = key[i] => call[i] # call[j]
            /\ (AloneAtBegin(i) /\ \E j \in before[i] : key[j] = key[i]) =>
                /\ ~loaded[i] /\ onceFunc[call[i]] = fn[i]
                /\ Done(i) => Pair(i) = FnReturn(fn[i])

(***************************************************************************)
(* C10 amended: a Do(k, op2) that begins after the Do(k, op) that created  *)
(* a call (its owner) has returned never obtains that call, and runs op2   *)
(* when no other Do on k is in progress as it begins.                      *)
(***************************************************************************)
C10_NoReuseAfterOwnerReturn ==
    \A i \in Ids :
        Started(i) =>
            /\ \A j \in before[i] :
                (key[j] = key[i] /\ ~loaded[j]) => call[i] # call[j]
            /\ (AloneAtBegin(i) /\ \E j \in before[i] : key[j] = key[i]) =>
                /\ ~loaded[i] /\ onceFunc[call[i]] = fn[i]
                /\ PastOnce(i) => runs[i] = 1
                /\ Done(i) => Pair(i) = FnReturn(fn[i])

C10_Witness ==
    \E i, j \in Ids :
        /\ j \in before[i] /\ key[j] = key[i] /\ ~loaded[j]
        /\ AloneAtBegin(i) /\ Done(i)
        /\ fn[i] # fn[j] /\ nForget = 0
(***************************************************************************)
(* C11: Do invocations on distinct keys do not wait for one another: every *)
(* fn is started at most once, and a Do on a key other than key 1 returns  *)
(* even when the fn passed for key 1 never returns.                        *)
(***************************************************************************)
C11_DistinctKeysIndependent ==
    /\ [](\A e \in Ids : runs[e] <= 1)
    /\ \A i \in Ids : (Started(i) /\ key[i] # 1) ~> Done(i)

C11_Witness ==
    \E i, j, l \in Ids :
        /\ key[i] = 1 /\ pc[i] = "run"
        /\ key[j] # 1 /\ Done(j) /\ runs[call[j]] = 1
        /\ key[l] # 1 /\ pc[l] = "run"

(***************************************************************************)
(* C12: a Forget(k) step removes the entry of k if there is one and is a   *)
(* no-op otherwise, repeating it on the state it leaves changes nothing,   *)
(* and it leaves the entries of all other keys, every call's outcome and   *)
(* once state, every callers counter and every invocation unchanged.       *)
(***************************************************************************)
C12_ForgetIdempotentKeyLocal ==
    [][(nForget' # nForget) =>
        /\ \E k \in Keys :
            /\ fresh'[k]
            /\ m' = [m EXCEPT ![k] = NoCall]
            /\ LoadAndDelete(m', k) = m'
        /\ (\A k \in Keys : m[k] = NoCall) => m' = m
        /\ UNCHANGED <<callers, once, onceFunc, result, pc, call, loaded,
                       got, seen, ret>>
      ]_vars

C12_Witness ==
    \E k, k2 \in Keys :
        /\ k # k2 /\ nForget > 0 /\ fresh[k]
        /\ m[k2] # NoCall
        /\ \E e \in forgotten : key[e] = k /\ callers[e] = 2 /\ Running(e)

(***************************************************************************)
(* C13: inside Do only the invocation that created a call removes it from  *)
(* the registry: a joiner removes nothing, an owner's CompareAndDelete     *)
(* removes no call but its own (not a newer one stored under the key after *)
(* a Forget), and a call is removed at most once and never stored again.   *)
(***************************************************************************)
C13_OnlyOwnerRemoves ==
    /\ \A e \in Ids : removedBy[e] \subseteq {e}
    /\ \A j \in Ids : loaded[j] => \A e \in Ids : j \notin removedBy[e]
    /\ \A e \in Ids : ~(e \in forgotten /\ removedBy[e] # {})
    /\ \A k \in Keys :
        m[k] # NoCall => (m[k] \notin forgotten /\ removedBy[m[k]] = {})

C13_Witness ==
    \E e1, e2 \in Ids :
        /\ e1 < e2 /\ key[e1] = key[e2]
        /\ e1 \in forgotten /\ Done(e1) /\ ~loaded[e1]
        /\ m[key[e2]] = e2
        /\ \E e3 \in Ids : removedBy[e3] = {e3}

(***************************************************************************)
(* C14: every call in the registry was created by a Do invocation that has *)
(* not returned yet, so the registry is empty whenever no Do is in         *)
(* progress, whatever the fns returned and however Forget interleaved.     *)
(***************************************************************************)
C14_RegistryOnlyLiveOwners ==
    /\ \A k \in Keys :
        m[k] # NoCall =>
            /\ Registered(m[k]) /\ key[m[k]] = k
            /\ ~Done(m[k])
    /\ (\A i \in Ids : pc[i] \in {"idle", "done"}) => \A k \in Keys : m[k] = NoCall

C14_Witness ==
    /\ \A i \in Ids : Done(i)
    /\ \E i \in Ids : Pair(i)[2] # NoCall
    /\ forgotten # {}
    /\ \E e \in Ids : removedBy[e] = {e}
    /\ \A k \in Keys : m[k] = NoCall

(***************************************************************************)
(* C15: the fn run for a call is the one passed by the Do invocation that  *)
(* created the call; the fn passed by an invocation that joined an         *)
(* existing call is never run.                                             *)
(***************************************************************************)
C15_OnlyCreatorsFnRuns ==
    /\ \A e \in Ids : once[e] = "done" => result[e] = FnReturn(fn[e])
    /\ \A e \in Ids : runs[e] > 0 => (Registered(e) /\ onceFunc[e] = fn[e])
    /\ \A j \in Ids : (Started(j) /\ loaded[j]) => (runs[j] = 0 /\ once[j] = "new")

C15_Witness ==
    \E e, j \in Ids :
        /\ once[e] = "done" /\ runner[e] = j /\ j # e
        /\ fn[j] # fn[e] /\ Done(j)

(***************************************************************************)
(* C16: the fn of a call always runs inside the Do invocation that created *)
(* the call, so the owner never waits for another caller and only joiners  *)
(* block in c.onceFunc().                                                  *)
(***************************************************************************)
C16_OwnerRunsFn ==
    /\ \A e \in Ids : runs[e] > 0 => runner[e] = e
    /\ \A i \in Ids : (pc[i] = "once" /\ Running(call[i])) => loaded[i]

(***************************************************************************)
(* C17: when every fn returns and every goroutine keeps being scheduled,   *)
(* every Do invocation eventually returns, those attached to a call that   *)
(* Forget removed included.                                                *)
(***************************************************************************)
C17_EveryDoReturns ==
    \A i \in Ids : Started(i) ~> Done(i)

C17_Witness ==
    \E i, j \in Ids :
        /\ i # j /\ call[i] = call[j] /\ call[i] \in forgotten
        /\ loaded[j] /\ Done(j) /\ Done(i)
        /\ runner[call[i]] = i

(***************************************************************************)
(* C18: the callers counter of every call equals the number of invocations *)
(* between their Add(1) and their Add(-1) on it: it is never negative,     *)
(* never above the number of invocations that obtained the call, at least  *)
(* 1 when an invocation reads it, and 0 once all of them have returned.    *)
(***************************************************************************)
Counted(e) ==
    {i \in Ids : call[i] = e /\ pc[i] \in {"once", "run", "load", "dec"}}

C18_CallersCounts ==
    \A e \in Ids :
        /\ callers[e] = Cardinality(Counted(e))
        /\ callers[e] >= 0
        /\ callers[e] <= Cardinality({i \in Ids : Started(i) /\ call[i] = e})
        /\ \A i \in Ids :
            (call[i] = e /\ pc[i] \in {"dec", "cad", "done"}) =>
                (seen[i] >= 1 /\ seen[i] <= MaxDo)
        /\ (\A i \in Ids : (Started(i) /\ call[i] = e) => Done(i)) => callers[e] = 0

C18_Witness ==
    \E e \in Ids :
        /\ \E i \in Ids : call[i] = e /\ pc[i] = "dec" /\ seen[i] = 3
        /\ callers[e] = 2
        /\ \E j \in Ids : call[j] = e /\ Done(j)

(***************************************************************************)
(* C19: while Forget has not been called, at most one fn per key is in     *)
(* progress: an owner's entry is removed only after its call's fn has      *)
(* returned, so a later call for the key is created only after that.       *)
(***************************************************************************)
C19_NoForgetOneRunningPerKey ==
    nForget = 0 =>
        /\ \A e1, e2 \in Ids :
            (Running(e1) /\ Running(e2) /\ key[e1] = key[e2]) => e1 = e2
        /\ \A e \in Ids : removedBy[e] # {} => once[e] = "done"
        /\ \A e1, e2 \in Ids :
            (e1 < e2 /\ Registered(e1) /\ Registered(e2) /\ key[e1] = key[e2])
                => (once[e1] = "done" /\ removedBy[e1] = {e1})

C19_Witness ==
    \E e1, e2, e3 \in Ids :
        /\ nForget = 0
        /\ e1 < e2 /\ key[e1] = key[e2] /\ Registered(e1) /\ Registered(e2)
        /\ Running(e2)
        /\ key[e3] # key[e1] /\ Running(e3)
====
